---- MODULE Spec2Model ----
(***************************************************************************)
(* A model of src/bot.py (class Bot): the queue builder (smart_queue), the *)
(* publish pipeline (tweet, download_latest, tweet_media, can_tweet) and   *)
(* the relationship tracker (follow_back, unfollow), over the three        *)
(* database tables the methods share.                                      *)
(*                                                                         *)
(* Every method is a process with a position (pcT, pcQ, ...); a step is one *)
(* database statement or one call to S3 / the Twitter API, so that runs of *)
(* different methods interleave at the granularity at which the code       *)
(* commits.  A table is a set of rows; a row carries the timestamp the     *)
(* code stamps it with (datetime.now(), here the variable clock, which     *)
(* moves forward at every reading).                                        *)
(***************************************************************************)
EXTENDS Integers, Sequences, FiniteSets, TLC

\* ------------------------------------------------------------------ bounds
\* The asset keys that can appear under bucket_directory, and the key of the
\* "directory" object itself (a key ending in '/').  PipelineKeys are the keys
\* of the behaviours in which smart_queue runs beside tweet.
Keys == {"a", "b", "c"}
PipelineKeys == {"a", "b"}
FolderKey == "dir/"

MaxRecentLimit == 2
MaxDownloadAttempts == 2
MaxTweetAttempts == 2
\* Readings of the clock left to a behaviour after its first state.
MaxStamps == 4
MaxTweetTimeout == 2

\* The accounts that may follow the bot, and the largest follower_retrieve_limit.
Peers == {"p", "q"}
MaxFollowerRetrieveLimit == 2
\* if not_following >= 180: break
UnfollowLimit == 180

\* datetime.datetime.utcfromtimestamp(0)
Epoch == 0
\* The first reading of the clock: later than the rows a behaviour starts
\* with, and later than Epoch by more than any timeout.
StartClock == MaxRecentLimit + 2

None == "None"

VARIABLES
    \* keys.json (read once by __init__, never written again)
    tweet_enabled, recent_limit, max_download_attempts, max_tweet_attempts,
    tweet_timeout,
    \* the keys that exist under bucket_directory at some time of the behaviour
    bucket,
    \* datetime.datetime.now()
    clock,
    \* the database
    queue_table, recent_queue_table,
    \* tweet(), download_latest(), tweet_media(): position and locals
    pcT, attempt, filepath, tweet_attempt, ids, row_count, evicted,
    \* what the running tweet() call has done so far (observations)
    post_calls, posted, built_during,
    \* the keys download_latest dropped from the queue after a failed download
    \* and no smart_queue run has inserted since (observation)
    dropped,
    \* smart_queue(): position and locals
    pcQ, recent_queue, file_pool, new_queue,
    \* the last run of smart_queue that pushed its queue, and the files tweet()
    \* took off the queue since (observations, kept by SpecConsume only)
    built, consumed,
    \* the calls of media_upload and update_status the running tweet() call
    \* has made, with their outcomes (observation, kept by SpecPublish only)
    api_log,
    \* when the last call of tweet() that took a file off the queue wrote its
    \* recent row, and when the running call of tweet() was made (observation,
    \* kept by SpecPaced only)
    publish_times,
    \* the files taken off the queue, by tweet() or by download_latest after
    \* a failed download, since smart_queue last pushed a queue, each with the
    \* number of rows deleted (observation, kept by SpecDequeue only)
    removed,
    \* keys.json
    follower_retrieve_limit,
    \* Twitter's side: who follows the account, whom the account follows
    twitter_followers, twitter_friends,
    \* the database: for each id, the number of rows of request_sent_table
    request_sent_table,
    \* follow_back(): position and locals (fb_followers: the rest of the list)
    pcF, fb_followers, follower,
    \* unfollow(): position and locals (friends: the ids not yet visited)
    pcU, friends, followers, user, not_following,
    \* for each peer, what became of the follow attempts made toward it, and
    \* the last follow attempt (observations, kept by SpecFollow only)
    requests, last_follow,
    \* the last run of unfollow() that listed the friends: its two listings,
    \* the rows it found, the peers it looked up and those it unfollowed
    \* (observation, kept by SpecUnfollow only)
    unfollow_run

confVars == <<tweet_enabled, recent_limit, max_download_attempts,
              max_tweet_attempts, tweet_timeout, bucket>>
tweetVars == <<pcT, attempt, filepath, tweet_attempt, ids, row_count,
               evicted, post_calls, posted, built_during>>
queueVars == <<pcQ, recent_queue, file_pool, new_queue>>
obsVars == <<built, consumed, api_log, publish_times, removed>>
pipelineVars == <<confVars, clock, queue_table, recent_queue_table, tweetVars,
                  dropped, queueVars, obsVars>>
twitterVars == <<follower_retrieve_limit, twitter_followers, twitter_friends,
                 request_sent_table>>
followVars == <<pcF, fb_followers, follower>>
unfollowVars == <<pcU, friends, followers, user, not_following>>
requestVars == <<requests, last_follow, unfollow_run>>
relationVars == <<twitterVars, followVars, unfollowVars, requestVars>>
vars == <<pipelineVars, relationVars>>

\* ------------------------------------------------------- database helpers
Row(k, t) == [filepath |-> k, timestamp |-> t]

\* SELECT count(*) FROM table
count_rows(table) == Cardinality(table)

\* (mutant) ORDER BY timestamp ASC
get_oldest_row(table) ==
    {r \in table : \A o \in table : r.timestamp <= o.timestamp}

\* SELECT * FROM table ORDER BY timestamp DESC LIMIT 1: the rows fetchone()
\* can return (one row unless timestamps tie); none when the table is empty.
get_newest_row(table) ==
    {r \in table : \A s \in table : s.timestamp <= r.timestamp}

\* (mutant) the DELETE matches no row
delete_oldest_row_matches_nothing(table) == table

\* DELETE FROM table WHERE timestamp IN (SELECT timestamp FROM table
\* ORDER BY timestamp ASC LIMIT 1)
delete_oldest_row(table) ==
    {r \in table : \E s \in table : s.timestamp < r.timestamp}

\* (mutant) only the newest of the rows with this filepath is deleted
delete_row_newest_only(table, id) ==
    {r \in table : r.filepath # id \/
                   \E s \in table : s.filepath = id /\ s.timestamp > r.timestamp}

\* (mutant) the DELETE matches no row
delete_row_matches_nothing(table, id) == table

\* DELETE FROM table WHERE filepath = id
delete_row(table, id) == {r \in table : r.filepath # id}

\* INSERT INTO recent_queue_table (filepath, timestamp) VALUES (entry, now)
insert_recent(table, entry, now) == table \cup {Row(entry, now)}

\* [row[0] for row in get_table_contents(table)], as the set of its values
get_table_contents(table) == {r.filepath : r \in table}

\* SELECT timestamp FROM table ORDER BY timestamp DESC LIMIT 1, or the epoch
get_recent_timestamp(table) ==
    IF table = {} THEN Epoch
    ELSE (CHOOSE r \in table : \A s \in table : s.timestamp <= r.timestamp).timestamp

get_time_since_last_tweet(now) == now - get_recent_timestamp(recent_queue_table)

\* (mutant) tweeting is allowed as soon as the timeout is reached
can_tweet_at_timeout(now) ==
    /\ tweet_enabled
    /\ count_rows(queue_table) > 0
    /\ get_time_since_last_tweet(now) >= tweet_timeout

can_tweet(now) ==
    /\ tweet_enabled
    /\ count_rows(queue_table) > 0
    /\ get_time_since_last_tweet(now) > tweet_timeout

\* ------------------------------------------------------------ smart_queue
\* random.shuffle(list): every order of the list's elements
shuffle(S) ==
    {f \in [1..Cardinality(S) -> S] : \A i, j \in DOMAIN f : i # j => f[i] # f[j]}

\* for i in range(end): new_queue.append(temp.pop())
pop_front(temp, end) == [i \in 1..end |-> temp[Len(temp) - i + 1]]

\* what temp still holds after the pops
pop_rest(temp, end) == {temp[i] : i \in 1..(Len(temp) - end)}

\* end = len(temp) if len(temp) < self.recent_limit else self.recent_limit
front_size(temp, limit) == IF Len(temp) < limit THEN Len(temp) ELSE limit

\* (mutant) the second group is the recent table, not the recent files of
\* the pool
smart_queue_recent_table(recent, pool, limit) ==
    LET temp  == {k \in pool : k \notin recent}
    IN  UNION { LET end == front_size(t, limit)
                IN  {pop_front(t, end) \o u :
                        u \in shuffle(pop_rest(t, end) \cup recent)}
              : t \in shuffle(temp) }

\* (mutant) the whole pool is shuffled, no front group is set aside
smart_queue_plain_shuffle(recent, pool, limit) == shuffle(pool)

\* The lists smart_queue can build from the recent files it read and the pool
\* it listed: one per outcome of the two shuffles.
smart_queue(recent, pool, limit) ==
    LET temp  == {k \in pool : k \notin recent}
        temp2 == {k \in pool : k \in recent}
    IN  UNION { LET end == front_size(t, limit)
                IN  {pop_front(t, end) \o u :
                        u \in shuffle(pop_rest(t, end) \cup temp2)}
              : t \in shuffle(temp) }

\* (mutant) the rows are inserted in the order of new_queue
push_queue_forward(table, q, now) ==
    table \cup {Row(q[j], now + j - 1) : j \in 1..Len(q)}

\* for filepath in new_queue[::-1]: INSERT ... timestamp = now()
push_queue(table, q, now) ==
    table \cup {Row(q[j], now + Len(q) - j) : j \in 1..Len(q)}

TweetRunning == pcT # "idle"

\* Lines 326-347: read the recent table, list the bucket, build new_queue.
SmartQueue_Build ==
    /\ pcQ = "idle"
    /\ \E listing \in (SUBSET (bucket \cup {FolderKey})) \ {{}} :
          /\ recent_queue' = get_table_contents(recent_queue_table)
          /\ file_pool' = listing \ {FolderKey}
          /\ new_queue' \in smart_queue(recent_queue', file_pool', recent_limit)
    /\ pcQ' = "push"
    /\ UNCHANGED <<confVars, clock, queue_table, recent_queue_table, tweetVars, dropped>>

\* Lines 329-330 when the listing holds no object: the response has no
\* 'Contents' entry and response['Contents'] raises KeyError.
SmartQueue_KeyError ==
    /\ pcQ = "idle"
    /\ pcQ' = "raised"
    /\ UNCHANGED <<confVars, clock, queue_table, recent_queue_table, tweetVars, dropped,
                   recent_queue, file_pool, new_queue>>

\* Lines 350-357: insert the rows, newest row = first of new_queue, commit;
\* the call returns.
SmartQueue_Push ==
    /\ pcQ = "push"
    /\ clock + Len(new_queue) <= StartClock + MaxStamps
    /\ queue_table' = push_queue(queue_table, new_queue, clock)
    /\ clock' = clock + Len(new_queue)
    /\ pcQ' = "idle"
    /\ recent_queue' = {}
    /\ file_pool' = {}
    /\ new_queue' = <<>>
    /\ built_during' = (built_during \/ TweetRunning)
    /\ dropped' = dropped \ {new_queue[j] : j \in 1..Len(new_queue)}
    /\ UNCHANGED <<confVars, recent_queue_table,
                   pcT, attempt, filepath, tweet_attempt, ids, row_count,
                   evicted, post_calls, posted>>

\* The KeyError has left smart_queue.
SmartQueue_Raised ==
    /\ pcQ = "raised"
    /\ pcQ' = "idle"
    /\ UNCHANGED <<confVars, clock, queue_table, recent_queue_table, tweetVars, dropped,
                   recent_queue, file_pool, new_queue>>

\* ------------------------------------------------- tweet, download_latest
\* What s3.meta.client.download_file (or the os.path.isfile test before it)
\* can end with.
FetchOutcomes ==
    {"isfile", "downloaded", "FileNotFoundError", "ClientError", "IsADirectoryError"}

\* What api.media_upload and api.update_status can end with: success, a
\* TweepError with a response of the given status ("other": any other status),
\* a TweepError without response, a TypeError.
ApiOutcomes == {"ok", "429", "500", "503", "other", "no_response", "TypeError"}

\* Line 54 and line 81: tweet() calls download_latest(), which enters its loop
\* or, with no attempt allowed, returns None at once.
Tweet_Start ==
    /\ pcT = "idle"
    /\ pcT' = IF max_download_attempts > 0 THEN "download" ELSE "done"
    /\ UNCHANGED <<confVars, clock, queue_table, recent_queue_table, queueVars, dropped,
                   attempt, filepath, tweet_attempt, ids, row_count, evicted,
                   post_calls, posted, built_during>>

\* Lines 83-114 up to the except clause taken: row = get_newest_row(),
\* filepath = row[0], then the isfile test or the download.  fetchone() on an
\* empty table is None, and None[0] raises TypeError, which nothing in
\* download_latest or tweet catches.
Download_Fetch ==
    /\ pcT = "download"
    /\ IF queue_table = {}
       THEN /\ filepath' = None
            /\ pcT' = "raised"
       ELSE \E r \in get_newest_row(queue_table), outcome \in FetchOutcomes :
               /\ filepath' = r.filepath
               /\ pcT' = CASE outcome \in {"isfile", "downloaded"} -> "dequeue"
                           [] outcome \in {"FileNotFoundError", "ClientError"} -> "drop"
                           [] outcome = "IsADirectoryError" -> "drop_break"
    /\ UNCHANGED <<confVars, clock, queue_table, recent_queue_table, queueVars,
                   dropped, attempt, tweet_attempt, ids, row_count, evicted,
                   post_calls, posted, built_during>>

\* Lines 105-106, 109-110, 113-114: delete the row(s) of the failed file, then
\* continue with the next attempt or break; line 116 returns None.
Download_Drop ==
    /\ pcT \in {"drop", "drop_break"}
    /\ queue_table' = delete_row(queue_table, filepath)
    /\ dropped' = dropped \cup {filepath}
    /\ IF pcT = "drop" /\ attempt + 1 < max_download_attempts
       THEN /\ pcT' = "download"
            /\ attempt' = attempt + 1
            /\ filepath' = filepath
       ELSE /\ pcT' = "done"
            /\ attempt' = 0
            /\ filepath' = None
    /\ UNCHANGED <<confVars, clock, recent_queue_table, queueVars,
                   tweet_attempt, ids, row_count, evicted,
                   post_calls, posted, built_during>>

\* Line 60, then line 120: the downloaded file leaves the queue before
\* tweet_media starts.
Tweet_Dequeue ==
    /\ pcT = "dequeue"
    /\ queue_table' = delete_row(queue_table, filepath)
    /\ pcT' = IF max_tweet_attempts > 0 THEN "upload" ELSE "insert_recent"
    /\ UNCHANGED <<confVars, clock, recent_queue_table, queueVars, dropped,
                   attempt, filepath, tweet_attempt, ids, row_count, evicted,
                   post_calls, posted, built_during>>

\* ------------------------------------------------------------ tweet_media
\* (mutant) never starts another attempt
tweet_again_never(outcome, has_ids) == FALSE

\* (mutant) retries after status 429 too
tweet_again_also_429(outcome, has_ids) ==
    /\ outcome \in {"429", "500", "503", "other", "no_response"}
    /\ ~has_ids

\* (mutant) retries without looking at ids
tweet_again_whatever_ids(outcome, has_ids) ==
    outcome \in {"500", "503", "other", "no_response"}

\* Lines 142-168: the except clause reaches `continue` for status 500, 503,
\* any other status but 429, and for a missing response, and only if no
\* media id was obtained; 429 and TypeError never retry.
tweet_again(outcome, has_ids) ==
    /\ outcome \in {"500", "503", "other", "no_response"}
    /\ ~has_ids

\* (mutant) one attempt more than max_tweet_attempts
NextTweetAttempt_one_more ==
    IF tweet_attempt < max_tweet_attempts THEN "upload" ELSE "insert_recent"

\* Where the loop of line 120 goes after `continue`.  (When tweet_media is
\* left, at "insert_recent", its locals tweet_attempt and ids are gone.)
NextTweetAttempt ==
    IF tweet_attempt + 1 < max_tweet_attempts THEN "upload" ELSE "insert_recent"

\* Lines 123-125: ids = []; uploaded = api.media_upload(filepath), ending
\* with the given outcome.
TweetMedia_UploadEnds(outcome) ==
    /\ pcT = "upload"
    /\ IF outcome = "ok"
       THEN /\ ids' = TRUE
            /\ pcT' = "post"
            /\ tweet_attempt' = tweet_attempt
       ELSE /\ ids' = FALSE
            /\ pcT' = IF tweet_again(outcome, FALSE)
                      THEN NextTweetAttempt ELSE "insert_recent"
            /\ tweet_attempt' = IF pcT' = "upload" THEN tweet_attempt + 1 ELSE 0
    /\ UNCHANGED <<confVars, clock, queue_table, recent_queue_table, queueVars, dropped,
                   attempt, filepath, row_count, evicted,
                   post_calls, posted, built_during>>

TweetMedia_Upload == \E outcome \in ApiOutcomes : TweetMedia_UploadEnds(outcome)

\* Line 128: api.update_status(status=comment, media_ids=ids), ending with
\* the given outcome.
TweetMedia_PostEnds(outcome) ==
    /\ pcT = "post"
    /\ post_calls' = post_calls + 1
    /\ posted' = (outcome = "ok")
    /\ pcT' = IF outcome # "ok" /\ tweet_again(outcome, ids)
              THEN NextTweetAttempt ELSE "insert_recent"
    /\ tweet_attempt' = IF pcT' = "upload" THEN tweet_attempt + 1 ELSE 0
    /\ ids' = FALSE
    /\ UNCHANGED <<confVars, clock, queue_table, recent_queue_table, queueVars, dropped,
                   attempt, filepath, row_count, evicted, built_during>>

TweetMedia_Post == \E outcome \in ApiOutcomes : TweetMedia_PostEnds(outcome)

\* ------------------------------------------------ tweet: the recent table
\* (mutant) the file is recorded as recent only if the post was created
Tweet_InsertRecent_if_posted ==
    /\ pcT = "insert_recent"
    /\ clock < StartClock + MaxStamps
    /\ recent_queue_table' = IF posted
                             THEN insert_recent(recent_queue_table, filepath, clock)
                             ELSE recent_queue_table
    /\ clock' = clock + 1
    /\ row_count' = count_rows(recent_queue_table')
    /\ pcT' = IF row_count' > recent_limit THEN "evict" ELSE "done"
    /\ UNCHANGED <<confVars, queue_table, queueVars, dropped,
                   attempt, filepath, tweet_attempt, ids, evicted,
                   post_calls, posted, built_during>>

\* Lines 66-68: insert_recent(filepath), stamped with now(), then
\* row_count = count_rows(recent_queue_table).  tweet() is the only writer of
\* the table, so the count is the one right after the insertion.
Tweet_InsertRecent ==
    /\ pcT = "insert_recent"
    /\ clock < StartClock + MaxStamps
    /\ recent_queue_table' = insert_recent(recent_queue_table, filepath, clock)
    /\ clock' = clock + 1
    /\ row_count' = count_rows(recent_queue_table')
    /\ pcT' = IF row_count' > recent_limit THEN "evict" ELSE "done"
    /\ UNCHANGED <<confVars, queue_table, queueVars, dropped,
                   attempt, filepath, tweet_attempt, ids, evicted,
                   post_calls, posted, built_during>>

\* Lines 69-70: one delete_oldest_row per iteration of the range.
Tweet_Evict ==
    /\ pcT = "evict"
    /\ recent_queue_table' = delete_oldest_row(recent_queue_table)
    /\ evicted' = evicted + 1
    /\ pcT' = IF evicted + 1 < row_count - recent_limit THEN "evict" ELSE "done"
    /\ UNCHANGED <<confVars, clock, queue_table, queueVars, dropped,
                   attempt, filepath, tweet_attempt, ids, row_count,
                   post_calls, posted, built_during>>

\* tweet() has returned (pcT = "done") or the TypeError has left it
\* (pcT = "raised"): its locals are gone.
Tweet_Return ==
    /\ pcT \in {"done", "raised"}
    /\ pcT' = "idle"
    /\ attempt' = 0
    /\ filepath' = None
    /\ tweet_attempt' = 0
    /\ ids' = FALSE
    /\ row_count' = 0
    /\ evicted' = 0
    /\ post_calls' = 0
    /\ posted' = FALSE
    /\ built_during' = FALSE
    /\ UNCHANGED <<confVars, clock, queue_table, recent_queue_table, queueVars, dropped>>

\* ---------------------------------------------------------- specification
\* The recent tables a behaviour can start from: at most limit rows, stamped
\* before the first reading of the clock.
InitRecentTables(keys, limit) ==
    {T \in SUBSET [filepath : keys, timestamp : 1..MaxRecentLimit] :
        /\ Cardinality(T) <= limit
        /\ {r.timestamp : r \in T} = 1..Cardinality(T)}

\* ------------------------------------------------------------ follow_back
\* (mutant) request_sent that finds no row
request_sent_never(id) == FALSE

\* SELECT id FROM request_sent_table WHERE id = id; fetchone() is not None
request_sent(id) == request_sent_table[id] > 0

\* INSERT INTO request_sent_table (id, screen_name, timestamp)
update_request_sent(table, id) == [table EXCEPT ![id] = @ + 1]

\* delete_row(self.request_sent_table, 'id', id)
delete_request_sent(table, id) == [table EXCEPT ![id] = 0]

\* tweepy.Cursor(self.api.followers).items(follower_retrieve_limit): at most
\* follower_retrieve_limit followers, a follower possibly more than once
FollowerListings ==
    UNION {[1..n -> twitter_followers] : n \in 0..follower_retrieve_limit}

FollowOutcomes == {"ok", "403", "429", "other", "no_response"}

\* follower.follow() returned, or raised with status 403
\* (mutant) the refusal leaves no record
request_recorded_on_success_only(outcome) == outcome = "ok"

request_recorded(outcome) == outcome \in {"ok", "403"}

\* followers = [follower for follower in followers_iterator], or TweepError
FollowBack_List ==
    /\ pcF = "idle"
    /\ \/ \E listing \in FollowerListings :
            /\ fb_followers' = listing
            /\ pcF' = "check"
       \/ UNCHANGED <<pcF, fb_followers>>
    /\ UNCHANGED <<follower, twitterVars, unfollowVars>>

\* for follower in followers: if not self.request_sent(follower.id_str)
FollowBack_Check ==
    /\ pcF = "check"
    /\ IF fb_followers = <<>>
       THEN /\ pcF' = "idle"
            /\ follower' = None
            /\ UNCHANGED fb_followers
       ELSE /\ follower' = Head(fb_followers)
            /\ fb_followers' = Tail(fb_followers)
            /\ pcF' = IF request_sent(Head(fb_followers)) THEN "check" ELSE "follow"
    /\ UNCHANGED <<twitterVars, unfollowVars>>

\* follower.follow(): the request goes out; Twitter makes the account a
\* friend, or keeps the request pending (protected account), or refuses
FollowBack_Follow(outcome) ==
    /\ pcF = "follow"
    /\ \E accepted \in BOOLEAN :
        twitter_friends' = IF outcome = "ok" /\ accepted
                           THEN twitter_friends \cup {follower}
                           ELSE twitter_friends
    /\ pcF' = IF request_recorded(outcome) THEN "update" ELSE "check"
    /\ UNCHANGED <<follower_retrieve_limit, twitter_followers, request_sent_table,
                   fb_followers, follower, unfollowVars>>

\* self.update_request_sent(follower.id_str, follower.screen_name)
FollowBack_UpdateRequestSent ==
    /\ pcF = "update"
    /\ request_sent_table' = update_request_sent(request_sent_table, follower)
    /\ pcF' = "check"
    /\ UNCHANGED <<follower_retrieve_limit, twitter_followers, twitter_friends,
                   fb_followers, follower, unfollowVars>>

\* --------------------------------------------------------------- unfollow
\* for page in tweepy.Cursor(self.api.friends_ids).pages(), or TweepError
Unfollow_Friends ==
    /\ pcU = "idle"
    /\ \/ /\ friends' = twitter_friends
          /\ pcU' = "followers"
       \/ UNCHANGED <<pcU, friends>>
    /\ UNCHANGED <<followers, user, not_following, twitterVars, followVars>>

\* for page in tweepy.Cursor(self.api.followers_ids).pages(), or TweepError
Unfollow_Followers ==
    /\ pcU = "followers"
    /\ \/ /\ followers' = twitter_followers
          /\ pcU' = "loop"
          /\ UNCHANGED friends
       \/ /\ pcU' = "idle"
          /\ friends' = {}
          /\ UNCHANGED followers
    /\ not_following' = 0
    /\ UNCHANGED <<user, twitterVars, followVars>>

\* for friend in friends: if friend not in followers
Unfollow_Next ==
    /\ pcU = "loop"
    /\ IF friends = {}
       THEN /\ pcU' = "idle"
            /\ followers' = {}
            /\ user' = None
            /\ not_following' = 0
            /\ UNCHANGED friends
       ELSE \E friend \in friends :
            /\ friends' = friends \ {friend}
            /\ IF friend \in followers
               THEN UNCHANGED <<pcU, user>>
               ELSE pcU' = "get_user" /\ user' = friend
            /\ UNCHANGED <<followers, not_following>>
    /\ UNCHANGED <<twitterVars, followVars>>

\* user = self.api.get_user(friend), or TweepError
Unfollow_GetUser ==
    /\ pcU = "get_user"
    /\ pcU' \in {"destroy", "loop"}
    /\ UNCHANGED <<friends, followers, user, not_following, twitterVars, followVars>>

\* user.unfollow(), or TweepError
Unfollow_Destroy ==
    /\ pcU = "destroy"
    /\ \/ /\ twitter_friends' = twitter_friends \ {user}
          /\ pcU' = "delete_row"
       \/ /\ pcU' = "loop"
          /\ UNCHANGED twitter_friends
    /\ UNCHANGED <<follower_retrieve_limit, twitter_followers, request_sent_table,
                   friends, followers, user, not_following, followVars>>

\* (mutant) the run stops one unfollow later
cap_reached_late(count) == count > UnfollowLimit

\* if not_following >= 180: break
cap_reached(count) == count >= UnfollowLimit

\* self.delete_row(self.request_sent_table, 'id', user.id_str);
\* not_following += 1; if not_following >= 180: break
Unfollow_DeleteRow ==
    /\ pcU = "delete_row"
    /\ request_sent_table' = delete_request_sent(request_sent_table, user)
    /\ IF cap_reached(not_following + 1)
       THEN /\ pcU' = "idle"
            /\ friends' = {}
            /\ followers' = {}
            /\ user' = None
            /\ not_following' = 0
       ELSE /\ pcU' = "loop"
            /\ not_following' = not_following + 1
            /\ UNCHANGED <<friends, followers, user>>
    /\ UNCHANGED <<follower_retrieve_limit, twitter_followers, twitter_friends,
                   followVars>>

\* ---------------------------------------------------------------- Twitter
\* An account starts or stops following the bot.
Peer_Follows(peer) ==
    /\ peer \notin twitter_followers
    /\ twitter_followers' = twitter_followers \cup {peer}
    /\ UNCHANGED <<follower_retrieve_limit, twitter_friends, request_sent_table,
                   followVars, unfollowVars>>

Peer_Unfollows(peer) ==
    /\ peer \in twitter_followers
    /\ twitter_followers' = twitter_followers \ {peer}
    /\ UNCHANGED <<follower_retrieve_limit, twitter_friends, request_sent_table,
                   followVars, unfollowVars>>

\* ---------------------------------------------------------- specifications
\* No call of tweet() has been observed yet.
NoCycle == [published |-> FALSE, last |-> Epoch, start |-> Epoch]

\* No run of smart_queue has been observed yet.
NoBuild == [pushed |-> FALSE, recent |-> {}, pool |-> {}, queue |-> <<>>]

InitTweet ==
    /\ pcT = "idle"
    /\ attempt = 0
    /\ filepath = None
    /\ tweet_attempt = 0
    /\ ids = FALSE
    /\ row_count = 0
    /\ evicted = 0
    /\ post_calls = 0
    /\ posted = FALSE
    /\ built_during = FALSE
    /\ dropped = {}

InitQueue ==
    /\ pcQ = "idle"
    /\ recent_queue = {}
    /\ file_pool = {}
    /\ new_queue = <<>>
    /\ built = NoBuild
    /\ consumed = <<>>
    /\ api_log = <<>>
    /\ publish_times = NoCycle
    /\ removed = <<>>

\* No follow attempt has been observed yet.
NoFollow == [peer |-> None, had_record |-> FALSE, prior |-> "never", outcome |-> None]

\* No run of unfollow() has been observed yet.
NoRun == [started |-> FALSE, looping |-> FALSE, friends |-> {}, followers |-> {},
          records |-> {}, tried |-> {}, unfollowed |-> {}]

\* The relationship tracker at rest: nobody follows, nothing was requested.
InitFollow ==
    /\ pcF = "idle"
    /\ fb_followers = <<>>
    /\ follower = None
    /\ pcU = "idle"
    /\ friends = {}
    /\ followers = {}
    /\ user = None
    /\ not_following = 0
    /\ requests = [peer \in Peers |-> "never"]
    /\ last_follow = NoFollow
    /\ unfollow_run = NoRun

InitRelations ==
    /\ follower_retrieve_limit = MaxFollowerRetrieveLimit
    /\ twitter_followers = {}
    /\ twitter_friends = {}
    /\ request_sent_table = [peer \in Peers |-> 0]
    /\ InitFollow

InitDatabase ==
    /\ clock = StartClock
    /\ queue_table = {}
    /\ recent_queue_table \in InitRecentTables(bucket, recent_limit)

\* The steps of smart_queue and of tweet.
SmartQueue ==
    \/ SmartQueue_Build
    \/ SmartQueue_KeyError
    \/ SmartQueue_Push
    \/ SmartQueue_Raised

Tweet ==
    \/ Tweet_Start
    \/ Download_Fetch
    \/ Download_Drop
    \/ Tweet_Dequeue
    \/ TweetMedia_Upload
    \/ TweetMedia_Post
    \/ Tweet_InsertRecent
    \/ Tweet_Evict
    \/ Tweet_Return

\* Spec: smart_queue and tweet on their own cadences, their steps interleaved
\* in every way, for every recent_limit.
Init ==
    /\ tweet_enabled = TRUE
    /\ tweet_timeout = 1
    /\ recent_limit \in 0..MaxRecentLimit
    /\ max_download_attempts = MaxDownloadAttempts
    /\ max_tweet_attempts = MaxTweetAttempts
    /\ bucket = PipelineKeys
    /\ InitDatabase
    /\ InitTweet
    /\ InitQueue
    /\ InitRelations

Next ==
    \/ SmartQueue_Build /\ UNCHANGED <<obsVars, relationVars>>
    \/ SmartQueue_KeyError /\ UNCHANGED <<obsVars, relationVars>>
    \/ SmartQueue_Push /\ UNCHANGED <<obsVars, relationVars>>
    \/ SmartQueue_Raised /\ UNCHANGED <<obsVars, relationVars>>
    \/ Tweet_Start /\ UNCHANGED <<obsVars, relationVars>>
    \/ Download_Fetch /\ UNCHANGED <<obsVars, relationVars>>
    \/ Download_Drop /\ UNCHANGED <<obsVars, relationVars>>
    \/ Tweet_Dequeue /\ UNCHANGED <<obsVars, relationVars>>
    \/ TweetMedia_Upload /\ UNCHANGED <<obsVars, relationVars>>
    \/ TweetMedia_Post /\ UNCHANGED <<obsVars, relationVars>>
    \/ Tweet_InsertRecent /\ UNCHANGED <<obsVars, relationVars>>
    \/ Tweet_Evict /\ UNCHANGED <<obsVars, relationVars>>
    \/ Tweet_Return /\ UNCHANGED <<obsVars, relationVars>>

Spec == Init /\ [][Next]_vars

\* SpecSerial: a run of smart_queue and a call of tweet never overlap; every
\* recent_limit, max_download_attempts and max_tweet_attempts.
InitSerial ==
    /\ tweet_enabled = TRUE
    /\ tweet_timeout = 1
    /\ recent_limit \in 0..MaxRecentLimit
    /\ max_download_attempts \in 0..MaxDownloadAttempts
    /\ max_tweet_attempts \in 0..MaxTweetAttempts
    /\ bucket = PipelineKeys
    /\ InitDatabase
    /\ InitTweet
    /\ InitQueue
    /\ InitRelations

NextSerial ==
    \/ pcT = "idle" /\ SmartQueue_Build /\ UNCHANGED <<obsVars, relationVars>>
    \/ pcT = "idle" /\ SmartQueue_KeyError /\ UNCHANGED <<obsVars, relationVars>>
    \/ SmartQueue_Push /\ UNCHANGED <<obsVars, relationVars>>
    \/ SmartQueue_Raised /\ UNCHANGED <<obsVars, relationVars>>
    \/ pcQ = "idle" /\ Tweet_Start /\ UNCHANGED <<obsVars, relationVars>>
    \/ Download_Fetch /\ UNCHANGED <<obsVars, relationVars>>
    \/ Download_Drop /\ UNCHANGED <<obsVars, relationVars>>
    \/ Tweet_Dequeue /\ UNCHANGED <<obsVars, relationVars>>
    \/ TweetMedia_Upload /\ UNCHANGED <<obsVars, relationVars>>
    \/ TweetMedia_Post /\ UNCHANGED <<obsVars, relationVars>>
    \/ Tweet_InsertRecent /\ UNCHANGED <<obsVars, relationVars>>
    \/ Tweet_Evict /\ UNCHANGED <<obsVars, relationVars>>
    \/ Tweet_Return /\ UNCHANGED <<obsVars, relationVars>>

SpecSerial == InitSerial /\ [][NextSerial]_vars

\* SpecBuild: smart_queue alone, from every recent table over Keys.
InitBuild ==
    /\ tweet_enabled = TRUE
    /\ tweet_timeout = 1
    /\ recent_limit \in 0..MaxRecentLimit
    /\ max_download_attempts = MaxDownloadAttempts
    /\ max_tweet_attempts = MaxTweetAttempts
    /\ bucket = Keys
    /\ clock = StartClock
    /\ queue_table = {}
    /\ recent_queue_table \in InitRecentTables(bucket, MaxRecentLimit)
    /\ InitTweet
    /\ InitQueue
    /\ InitRelations

NextBuild ==
    \/ SmartQueue_Build /\ UNCHANGED <<obsVars, relationVars>>
    \/ SmartQueue_KeyError /\ UNCHANGED <<obsVars, relationVars>>
    \/ SmartQueue_Push /\ UNCHANGED <<obsVars, relationVars>>
    \/ SmartQueue_Raised /\ UNCHANGED <<obsVars, relationVars>>

SpecBuild == InitBuild /\ [][NextBuild]_vars

\* SpecGated: time passes, and tweet() is called only when can_tweet() holds
\* (the caller's gate); a run of smart_queue and a call of tweet do not
\* overlap.  Every tweet_enabled, tweet_timeout and recent_limit.
Tick ==
    /\ clock < StartClock + MaxStamps
    /\ clock' = clock + 1
    /\ UNCHANGED <<confVars, queue_table, recent_queue_table, tweetVars, dropped,
                   queueVars>>

Tweet_StartIfCanTweet ==
    /\ can_tweet(clock)
    /\ Tweet_Start

InitGated ==
    /\ tweet_enabled \in BOOLEAN
    /\ tweet_timeout \in 1..MaxTweetTimeout
    /\ recent_limit \in 0..MaxRecentLimit
    /\ max_download_attempts = MaxDownloadAttempts
    /\ max_tweet_attempts = 1
    /\ bucket = PipelineKeys
    /\ InitDatabase
    /\ InitTweet
    /\ InitQueue
    /\ InitRelations

NextGated ==
    \/ Tick /\ UNCHANGED <<obsVars, relationVars>>
    \/ pcT = "idle" /\ SmartQueue_Build /\ UNCHANGED <<obsVars, relationVars>>
    \/ pcT = "idle" /\ SmartQueue_KeyError /\ UNCHANGED <<obsVars, relationVars>>
    \/ SmartQueue_Push /\ UNCHANGED <<obsVars, relationVars>>
    \/ SmartQueue_Raised /\ UNCHANGED <<obsVars, relationVars>>
    \/ pcQ = "idle" /\ Tweet_StartIfCanTweet /\ UNCHANGED <<obsVars, relationVars>>
    \/ Download_Fetch /\ UNCHANGED <<obsVars, relationVars>>
    \/ Download_Drop /\ UNCHANGED <<obsVars, relationVars>>
    \/ Tweet_Dequeue /\ UNCHANGED <<obsVars, relationVars>>
    \/ TweetMedia_Upload /\ UNCHANGED <<obsVars, relationVars>>
    \/ TweetMedia_Post /\ UNCHANGED <<obsVars, relationVars>>
    \/ Tweet_InsertRecent /\ UNCHANGED <<obsVars, relationVars>>
    \/ Tweet_Evict /\ UNCHANGED <<obsVars, relationVars>>
    \/ Tweet_Return /\ UNCHANGED <<obsVars, relationVars>>

SpecGated == InitGated /\ [][NextGated]_vars

\* SpecPaced: SpecGated, with the time of each call of tweet() and the time
\* at which a call wrote its recent row recorded.
NextPaced ==
    \/ Tick /\ UNCHANGED <<obsVars, relationVars>>
    \/ pcT = "idle" /\ SmartQueue_Build /\ UNCHANGED <<obsVars, relationVars>>
    \/ pcT = "idle" /\ SmartQueue_KeyError /\ UNCHANGED <<obsVars, relationVars>>
    \/ SmartQueue_Push /\ UNCHANGED <<obsVars, relationVars>>
    \/ SmartQueue_Raised /\ UNCHANGED <<obsVars, relationVars>>
    \/ /\ pcQ = "idle"
       /\ Tweet_StartIfCanTweet
       /\ publish_times' = [publish_times EXCEPT !.start = clock]
       /\ UNCHANGED <<built, consumed, api_log, removed, relationVars>>
    \/ Download_Fetch /\ UNCHANGED <<obsVars, relationVars>>
    \/ Download_Drop /\ UNCHANGED <<obsVars, relationVars>>
    \/ Tweet_Dequeue /\ UNCHANGED <<obsVars, relationVars>>
    \/ TweetMedia_Upload /\ UNCHANGED <<obsVars, relationVars>>
    \/ TweetMedia_Post /\ UNCHANGED <<obsVars, relationVars>>
    \/ /\ Tweet_InsertRecent
       /\ publish_times' = [publish_times EXCEPT !.published = TRUE, !.last = clock]
       /\ UNCHANGED <<built, consumed, api_log, removed, relationVars>>
    \/ Tweet_Evict /\ UNCHANGED <<obsVars, relationVars>>
    \/ Tweet_Return /\ UNCHANGED <<obsVars, relationVars>>

SpecPaced == InitGated /\ [][NextPaced]_vars

\* SpecConsume: over Keys, one run of smart_queue on a queue table that may
\* hold a row left from an earlier run, then calls of tweet() whose downloads
\* all succeed.  The run and the files taken off the queue are recorded.
LeftoverQueues == {{}} \cup {{Row(k, StartClock - 1)} : k \in Keys}

InitConsume ==
    /\ tweet_enabled = TRUE
    /\ tweet_timeout = 1
    /\ recent_limit \in 0..MaxRecentLimit
    /\ max_download_attempts = 1
    /\ max_tweet_attempts = 1
    /\ bucket = Keys
    /\ clock = StartClock
    /\ queue_table \in LeftoverQueues
    /\ recent_queue_table \in InitRecentTables(bucket, recent_limit)
    /\ InitTweet
    /\ InitQueue
    /\ InitRelations

NextConsume ==
    \/ ~built.pushed /\ SmartQueue_Build /\ UNCHANGED <<obsVars, relationVars>>
    \/ /\ SmartQueue_Push
       /\ built' = [pushed |-> TRUE, recent |-> recent_queue, pool |-> file_pool,
                    queue |-> new_queue]
       /\ consumed' = <<>>
       /\ UNCHANGED <<api_log, publish_times, removed, relationVars>>
    \/ built.pushed /\ Tweet_Start /\ UNCHANGED <<obsVars, relationVars>>
    \/ Download_Fetch /\ pcT' \in {"dequeue", "raised"} /\ UNCHANGED <<obsVars, relationVars>>
    \/ /\ Tweet_Dequeue
       /\ consumed' = Append(consumed, filepath)
       /\ UNCHANGED <<built, api_log, publish_times, removed, relationVars>>
    \/ TweetMedia_Upload /\ UNCHANGED <<obsVars, relationVars>>
    \/ TweetMedia_Post /\ UNCHANGED <<obsVars, relationVars>>
    \/ Tweet_InsertRecent /\ UNCHANGED <<obsVars, relationVars>>
    \/ Tweet_Evict /\ UNCHANGED <<obsVars, relationVars>>
    \/ Tweet_Return /\ UNCHANGED <<obsVars, relationVars>>

SpecConsume == InitConsume /\ [][NextConsume]_vars

\* SpecPublish: calls of tweet() on a queue of two files, for every
\* max_tweet_attempts; every call of media_upload and of update_status the
\* running tweet() call made is recorded with its outcome.
Call(name, outcome) == [call |-> name, outcome |-> outcome]

InitPublish ==
    /\ tweet_enabled = TRUE
    /\ tweet_timeout = 1
    /\ recent_limit = 1
    /\ max_download_attempts = 1
    /\ max_tweet_attempts \in 0..MaxTweetAttempts
    /\ bucket = PipelineKeys
    /\ clock = StartClock
    /\ queue_table = {Row("a", StartClock - 2), Row("b", StartClock - 1)}
    /\ recent_queue_table = {}
    /\ InitTweet
    /\ InitQueue
    /\ InitRelations

NextPublish ==
    \/ Tweet_Start /\ UNCHANGED <<obsVars, relationVars>>
    \/ Download_Fetch /\ UNCHANGED <<obsVars, relationVars>>
    \/ Download_Drop /\ UNCHANGED <<obsVars, relationVars>>
    \/ Tweet_Dequeue /\ UNCHANGED <<obsVars, relationVars>>
    \/ \E outcome \in ApiOutcomes :
        /\ TweetMedia_UploadEnds(outcome)
        /\ api_log' = Append(api_log, Call("media_upload", outcome))
        /\ UNCHANGED <<built, consumed, publish_times, removed, relationVars>>
    \/ \E outcome \in ApiOutcomes :
        /\ TweetMedia_PostEnds(outcome)
        /\ api_log' = Append(api_log, Call("update_status", outcome))
        /\ UNCHANGED <<built, consumed, publish_times, removed, relationVars>>
    \/ Tweet_InsertRecent /\ UNCHANGED <<obsVars, relationVars>>
    \/ Tweet_Evict /\ UNCHANGED <<obsVars, relationVars>>
    \/ Tweet_Return /\ api_log' = <<>> /\ UNCHANGED <<built, consumed, publish_times, removed, relationVars>>

SpecPublish == InitPublish /\ [][NextPublish]_vars

\* SpecDequeue: runs of smart_queue and calls of tweet(), one after the
\* other in any order, so that several runs insert rows for the same file;
\* what leaves the queue between two pushes is recorded.
RowsOf(key) == Cardinality({r \in queue_table : r.filepath = key})

InitDequeue ==
    /\ tweet_enabled = TRUE
    /\ tweet_timeout = 1
    /\ recent_limit = 1
    /\ max_download_attempts \in 1..MaxDownloadAttempts
    /\ max_tweet_attempts = 1
    /\ bucket = PipelineKeys
    /\ InitDatabase
    /\ InitTweet
    /\ InitQueue
    /\ InitRelations

NextDequeue ==
    \/ pcT = "idle" /\ SmartQueue_Build /\ UNCHANGED <<obsVars, relationVars>>
    \/ pcT = "idle" /\ SmartQueue_KeyError /\ UNCHANGED <<obsVars, relationVars>>
    \/ /\ SmartQueue_Push
       /\ removed' = <<>>
       /\ UNCHANGED <<built, consumed, api_log, publish_times, relationVars>>
    \/ SmartQueue_Raised /\ UNCHANGED <<obsVars, relationVars>>
    \/ pcQ = "idle" /\ Tweet_Start /\ UNCHANGED <<obsVars, relationVars>>
    \/ Download_Fetch /\ UNCHANGED <<obsVars, relationVars>>
    \/ /\ Download_Drop
       /\ removed' = Append(removed, [key |-> filepath, by |-> "download_latest",
                                      rows |-> RowsOf(filepath)])
       /\ UNCHANGED <<built, consumed, api_log, publish_times, relationVars>>
    \/ /\ Tweet_Dequeue
       /\ removed' = Append(removed, [key |-> filepath, by |-> "tweet",
                                      rows |-> RowsOf(filepath)])
       /\ UNCHANGED <<built, consumed, api_log, publish_times, relationVars>>
    \/ TweetMedia_Upload /\ UNCHANGED <<obsVars, relationVars>>
    \/ TweetMedia_Post /\ UNCHANGED <<obsVars, relationVars>>
    \/ Tweet_InsertRecent /\ UNCHANGED <<obsVars, relationVars>>
    \/ Tweet_Evict /\ UNCHANGED <<obsVars, relationVars>>
    \/ Tweet_Return /\ UNCHANGED <<obsVars, relationVars>>

SpecDequeue == InitDequeue /\ [][NextDequeue]_vars

\* SpecFollow: accounts follow and unfollow the bot at any time; runs of
\* follow_back and of unfollow, one after the other in any order.  What the
\* follow attempts toward each peer came to is recorded: "recorded" after an
\* attempt that left a record, "failed" after one that left none, "cleared"
\* once an unfollow run deleted the peer's record.
InitPipelineIdle ==
    /\ tweet_enabled = TRUE
    /\ tweet_timeout = 1
    /\ recent_limit = 0
    /\ max_download_attempts = MaxDownloadAttempts
    /\ max_tweet_attempts = MaxTweetAttempts
    /\ bucket = PipelineKeys
    /\ clock = StartClock
    /\ queue_table = {}
    /\ recent_queue_table = {}
    /\ InitTweet
    /\ InitQueue

InitFollowBack ==
    /\ InitPipelineIdle
    /\ follower_retrieve_limit \in 1..MaxFollowerRetrieveLimit
    /\ twitter_followers = {}
    /\ twitter_friends = {}
    /\ request_sent_table = [peer \in Peers |-> 0]
    /\ InitFollow

NextFollow ==
    \/ \E peer \in Peers : Peer_Follows(peer) /\ UNCHANGED <<pipelineVars, requestVars>>
    \/ \E peer \in Peers : Peer_Unfollows(peer) /\ UNCHANGED <<pipelineVars, requestVars>>
    \/ pcU = "idle" /\ FollowBack_List /\ UNCHANGED <<pipelineVars, requestVars>>
    \/ FollowBack_Check /\ UNCHANGED <<pipelineVars, requestVars>>
    \/ \E outcome \in FollowOutcomes :
        /\ FollowBack_Follow(outcome)
        /\ last_follow' = [peer |-> follower,
                           had_record |-> request_sent_table[follower] > 0,
                           prior |-> requests[follower],
                           outcome |-> outcome]
        /\ UNCHANGED unfollow_run
        /\ requests' = [requests EXCEPT ![follower] =
                           IF outcome \in {"ok", "403"} THEN "recorded"
                           ELSE IF @ = "recorded" THEN @ ELSE "failed"]
        /\ UNCHANGED pipelineVars
    \/ FollowBack_UpdateRequestSent /\ UNCHANGED <<pipelineVars, requestVars>>
    \/ pcF = "idle" /\ Unfollow_Friends /\ UNCHANGED <<pipelineVars, requestVars>>
    \/ Unfollow_Followers /\ UNCHANGED <<pipelineVars, requestVars>>
    \/ Unfollow_Next /\ UNCHANGED <<pipelineVars, requestVars>>
    \/ Unfollow_GetUser /\ UNCHANGED <<pipelineVars, requestVars>>
    \/ Unfollow_Destroy /\ UNCHANGED <<pipelineVars, requestVars>>
    \/ /\ Unfollow_DeleteRow
       /\ requests' = [requests EXCEPT ![user] =
                          IF request_sent_table[user] > 0 THEN "cleared" ELSE @]
       /\ UNCHANGED <<pipelineVars, last_follow, unfollow_run>>

SpecFollow == InitFollowBack /\ [][NextFollow]_vars

\* SpecFollowBoth: one follow_back run and one unfollow run at a time, their
\* steps interleaved in every way, from every table with at most one row per
\* peer; accounts follow and unfollow the bot at any time.
InitFollowBoth ==
    /\ InitPipelineIdle
    /\ follower_retrieve_limit \in 1..MaxFollowerRetrieveLimit
    /\ twitter_followers = {}
    /\ twitter_friends \in SUBSET Peers
    /\ request_sent_table \in [Peers -> 0..1]
    /\ InitFollow

NextFollowBoth ==
    \/ \E peer \in Peers : Peer_Follows(peer) /\ UNCHANGED <<pipelineVars, requestVars>>
    \/ \E peer \in Peers : Peer_Unfollows(peer) /\ UNCHANGED <<pipelineVars, requestVars>>
    \/ FollowBack_List /\ UNCHANGED <<pipelineVars, requestVars>>
    \/ FollowBack_Check /\ UNCHANGED <<pipelineVars, requestVars>>
    \/ \E outcome \in FollowOutcomes :
        FollowBack_Follow(outcome) /\ UNCHANGED <<pipelineVars, requestVars>>
    \/ FollowBack_UpdateRequestSent /\ UNCHANGED <<pipelineVars, requestVars>>
    \/ Unfollow_Friends /\ UNCHANGED <<pipelineVars, requestVars>>
    \/ Unfollow_Followers /\ UNCHANGED <<pipelineVars, requestVars>>
    \/ Unfollow_Next /\ UNCHANGED <<pipelineVars, requestVars>>
    \/ Unfollow_GetUser /\ UNCHANGED <<pipelineVars, requestVars>>
    \/ Unfollow_Destroy /\ UNCHANGED <<pipelineVars, requestVars>>
    \/ Unfollow_DeleteRow /\ UNCHANGED <<pipelineVars, requestVars>>

SpecFollowBoth == InitFollowBoth /\ [][NextFollowBoth]_vars

\* SpecUnfollow: runs of unfollow() on an account that follows two peers, or
\* two more than the cap of one run.  The ids are numbers and the friends are
\* visited in increasing order; the first two peers follow and stop following
\* the bot at any time, and the lookup and the unfollow of these two may fail.
ManyPeers == 1..(UnfollowLimit + 2)
FlakyPeers == {1, 2}
Least(S) == CHOOSE x \in S : \A y \in S : x <= y
Records == {peer \in DOMAIN request_sent_table : request_sent_table[peer] > 0}

InitUnfollow ==
    /\ InitPipelineIdle
    /\ follower_retrieve_limit = MaxFollowerRetrieveLimit
    /\ twitter_followers = {}
    /\ twitter_friends \in {FlakyPeers, ManyPeers}
    /\ \E unrecorded \in SUBSET {2} :
        request_sent_table = [peer \in ManyPeers |-> IF peer \in unrecorded THEN 0 ELSE 1]
    /\ InitFollow

NextUnfollow ==
    \/ \E peer \in FlakyPeers : Peer_Follows(peer) /\ UNCHANGED <<pipelineVars, requestVars>>
    \/ \E peer \in FlakyPeers : Peer_Unfollows(peer) /\ UNCHANGED <<pipelineVars, requestVars>>
    \/ /\ Unfollow_Friends
       /\ unfollow_run' = IF pcU' = "followers"
                          THEN [NoRun EXCEPT !.started = TRUE,
                                             !.friends = twitter_friends,
                                             !.records = Records]
                          ELSE unfollow_run
       /\ UNCHANGED <<pipelineVars, requests, last_follow>>
    \/ /\ Unfollow_Followers
       /\ unfollow_run' = IF pcU' = "loop"
                          THEN [unfollow_run EXCEPT !.looping = TRUE,
                                                    !.followers = twitter_followers]
                          ELSE unfollow_run
       /\ UNCHANGED <<pipelineVars, requests, last_follow>>
    \/ /\ Unfollow_Next
       /\ IF friends = {} THEN TRUE ELSE friends \ friends' = {Least(friends)}
       /\ UNCHANGED <<pipelineVars, requestVars>>
    \/ /\ Unfollow_GetUser
       /\ pcU' = "destroy" \/ user \in FlakyPeers
       /\ unfollow_run' = [unfollow_run EXCEPT !.tried = @ \cup {user}]
       /\ UNCHANGED <<pipelineVars, requests, last_follow>>
    \/ /\ Unfollow_Destroy
       /\ pcU' = "delete_row" \/ user \in FlakyPeers
       /\ unfollow_run' = IF pcU' = "delete_row"
                          THEN [unfollow_run EXCEPT !.unfollowed = @ \cup {user}]
                          ELSE unfollow_run
       /\ UNCHANGED <<pipelineVars, requests, last_follow>>
    \/ Unfollow_DeleteRow /\ UNCHANGED <<pipelineVars, requestVars>>

SpecUnfollow == InitUnfollow /\ [][NextUnfollow]_vars

\* ------------------------------------------------------------------ claims
Min(a, b) == IF a < b THEN a ELSE b

QueueKeys == {r.filepath : r \in queue_table}

\* C1: the queue one smart_queue run builds from a pool P and recent files R
\* with |R| <= recent_limit starts with min(|P - R|, recent_limit) entries that
\* are all in P - R and pairwise distinct.
C1_FrontIsFresh ==
    (pcQ = "push" /\ Cardinality(recent_queue) <= recent_limit) =>
        LET fresh == file_pool \ recent_queue
            n == Min(Cardinality(fresh), recent_limit)
        IN  /\ n <= Len(new_queue)
            /\ \A i \in 1..n : new_queue[i] \in fresh
            /\ \A i, j \in 1..n : i # j => new_queue[i] # new_queue[j]

\* A queue was built whose front group has two entries and whose tail holds
\* a recent file of the pool.
C1_Witness ==
    /\ pcQ = "push"
    /\ Cardinality(recent_queue) <= recent_limit
    /\ Min(Cardinality(file_pool \ recent_queue), recent_limit) = 2
    /\ file_pool \cap recent_queue # {}
    /\ Len(new_queue) = 3

\* C2: the recent table holds at most recent_limit rows whenever no tweet()
\* call is in progress, and never more than recent_limit + 1 rows.
C2_RecentBounded ==
    /\ pcT \in {"idle", "done", "raised"} =>
          count_rows(recent_queue_table) <= recent_limit
    /\ count_rows(recent_queue_table) <= recent_limit + 1

\* A tweet() call has inserted into a full recent table, evicted the oldest
\* row and returned.
C2_Witness ==
    /\ pcT = "done"
    /\ evicted = 1
    /\ row_count = recent_limit + 1
    /\ count_rows(recent_queue_table) = recent_limit

\* C3: one tweet_media call makes at most one update_status call: after it,
\* no upload and no post is started again.
C3_PostAtMostOnce ==
    /\ post_calls <= 1
    /\ pcT \in {"upload", "post"} => post_calls = 0

\* update_status failed after a media id was obtained, with attempts left; the
\* loop was left.
C3_Witness ==
    /\ pcT = "insert_recent"
    /\ post_calls = 1
    /\ ~posted
    /\ max_tweet_attempts >= 2

\* The positions of tweet() at which the downloaded file is being, or has
\* been, handed to tweet_media.
Publishing == {"upload", "post", "insert_recent", "evict", "done"}

\* C4 as stated: no follow attempt is made toward a peer whose record exists
\* at the time of the attempt, and an attempt toward a peer that was
\* attempted before comes only after an unfollow run deleted its record.
C4_SecondAttemptOnlyAfterUnfollow ==
    last_follow.peer # None =>
        /\ ~last_follow.had_record
        /\ last_follow.prior \in {"never", "cleared"}

\* C4, amended: no follow attempt is made toward a peer whose record exists
\* at the time of the attempt, and an attempt toward a peer whose earlier
\* attempt left a record comes only after an unfollow run deleted that record.
C4_NoAttemptOnLiveRecord ==
    last_follow.peer # None =>
        /\ ~last_follow.had_record
        /\ last_follow.prior # "recorded"

\* A follow attempt was made toward a peer whose record an unfollow run had
\* deleted.
C4_Witness ==
    /\ last_follow.peer # None
    /\ last_follow.prior = "cleared"

\* C5: the file download_latest returned has no queue row while media_upload
\* or update_status is attempted for it, nor afterwards until tweet() has
\* returned, whatever the outcome, unless a smart_queue run pushed rows during
\* this tweet() call.
C5_DequeuedBeforePublish ==
    (pcT \in Publishing /\ filepath # None /\ ~built_during) =>
        filepath \notin QueueKeys

\* tweet() has returned after a post that failed; its file is not back in the
\* queue, where another file still waits.
C5_Witness ==
    /\ pcT = "done"
    /\ filepath # None
    /\ post_calls = 1
    /\ ~posted
    /\ ~built_during
    /\ queue_table # {}

\* C6: download_latest returns normally, with an entry or with None; when it
\* returns None, tweet() writes no recent row and calls neither media_upload
\* nor update_status.
C6_DownloadReturnsNormally ==
    /\ pcT # "raised"
    /\ (pcT = "done" /\ filepath = None) => (row_count = 0 /\ post_calls = 0)

\* C7: a file dropped after a failed download has no queue row until a
\* smart_queue run inserts it again, and the file tweet() goes on to publish
\* is never such a file.
C7_DroppedNeverPublished ==
    /\ dropped \cap QueueKeys = {}
    /\ (pcT \in Publishing \cup {"dequeue"} /\ filepath # None) =>
          filepath \notin dropped

\* The first attempt of this call failed and its file was dropped; the second
\* attempt succeeded and its file is being posted.
C7_Witness ==
    /\ pcT = "post"
    /\ attempt = 1
    /\ dropped # {}
    /\ filepath \notin dropped

LastPublishedAt ==
    IF recent_queue_table = {} THEN Epoch
    ELSE CHOOSE t \in {r.timestamp : r \in recent_queue_table} :
            \A r \in recent_queue_table : r.timestamp <= t

\* C9: can_tweet() is true iff tweeting is enabled, the queue has a row and
\* strictly more than tweet_timeout has passed since the newest recent row
\* (since the epoch without one); it is false whenever the queue is empty.
C9_CanTweetIff ==
    /\ can_tweet(clock) <=> /\ tweet_enabled
                            /\ queue_table # {}
                            /\ clock - LastPublishedAt > tweet_timeout
    /\ queue_table = {} => ~can_tweet(clock)

\* The gate has opened one tick after the timeout since the last recent row
\* ran out, and tweet() was called.
C9_Witness ==
    /\ pcT = "download"
    /\ recent_queue_table # {}
    /\ clock - LastPublishedAt = tweet_timeout + 1
    /\ can_tweet(clock)

\* The outcomes of media_upload after which tweet_media goes on to its next
\* attempt, and the server-side ones among them (status 500 and 503).
Retried == {"500", "503", "other", "no_response"}
ServerError == {"500", "503"}

\* The calls of media_upload among the first n calls of the log.
Uploads(n) == Cardinality({i \in 1..n : api_log[i].call = "media_upload"})

\* tweet_media was called and has returned.
TweetMediaReturned == pcT \in {"insert_recent", "evict", "done"} /\ filepath # None

\* C11: after a media_upload that failed with a server error (no media id),
\* tweet_media starts another attempt while fewer than max_tweet_attempts
\* were made, and none beyond; once an attempt's upload and post succeeded,
\* that post is the only update_status call and no attempt follows.
C11_RetryUploadThenPostOnce ==
    /\ \A i \in 1..Len(api_log) :
        (api_log[i].call = "media_upload" /\ api_log[i].outcome \in ServerError) =>
            IF Uploads(i) < max_tweet_attempts
            THEN Len(api_log) > i \/ pcT = "upload"
            ELSE Len(api_log) = i /\ pcT # "upload"
    /\ \A i \in 1..Len(api_log) :
        api_log[i] = Call("update_status", "ok") =>
            /\ i = Len(api_log)
            /\ pcT \notin {"upload", "post"}
            /\ Cardinality({j \in 1..Len(api_log) : api_log[j].call = "update_status"}) = 1

\* The first upload failed with a server error, the second attempt uploaded
\* and posted.
C11_Witness ==
    /\ TweetMediaReturned
    /\ Len(api_log) = 3
    /\ api_log[1] = Call("media_upload", "503")
    /\ api_log[3] = Call("update_status", "ok")

\* C12: a run of smart_queue on a pool without asset key does not raise, and
\* builds the empty queue.
C12_EmptyPoolIsNoError ==
    /\ pcQ # "raised"
    /\ (pcQ = "push" /\ file_pool = {}) => new_queue = <<>>

\* How a tweet_media call can have gone, read off its calls: the first k
\* uploads failed with a retried outcome, and then
\*   - the next upload and its post succeeded (created),
\*   - or there was no attempt left (exhausted),
\*   - or the next upload failed with 429 or TypeError, or the post after it
\*     failed in any way, and the loop was left (aborted).
RetriedUploads(k) ==
    \A i \in 1..k : api_log[i].call = "media_upload" /\ api_log[i].outcome \in Retried

PostCreated ==
    /\ Len(api_log) >= 2
    /\ Len(api_log) - 1 <= max_tweet_attempts
    /\ RetriedUploads(Len(api_log) - 2)
    /\ api_log[Len(api_log) - 1] = Call("media_upload", "ok")
    /\ api_log[Len(api_log)] = Call("update_status", "ok")

AttemptsExhausted ==
    /\ Len(api_log) = max_tweet_attempts
    /\ RetriedUploads(Len(api_log))

UploadAborted ==
    /\ Len(api_log) >= 1
    /\ Len(api_log) <= max_tweet_attempts
    /\ RetriedUploads(Len(api_log) - 1)
    /\ api_log[Len(api_log)].call = "media_upload"
    /\ api_log[Len(api_log)].outcome \in {"429", "TypeError"}

PostAborted ==
    /\ Len(api_log) >= 2
    /\ Len(api_log) - 1 <= max_tweet_attempts
    /\ RetriedUploads(Len(api_log) - 2)
    /\ api_log[Len(api_log) - 1] = Call("media_upload", "ok")
    /\ api_log[Len(api_log)].call = "update_status"
    /\ api_log[Len(api_log)].outcome # "ok"

\* C17 as stated: a tweet_media call that has returned either created the
\* post or used up all max_tweet_attempts attempts without creating it, and
\* not both.
C17_PostedOrExhausted ==
    TweetMediaReturned =>
        (PostCreated # (~PostCreated /\ Uploads(Len(api_log)) = max_tweet_attempts))

\* C17, amended: a tweet_media call that has returned went in exactly one of
\* three ways: it created the post; it used up all max_tweet_attempts
\* attempts, each failing at media_upload; or it left the loop without a post,
\* after 429 or TypeError at media_upload or after any failure of
\* update_status.
C17_PostedExhaustedOrAborted ==
    TweetMediaReturned =>
        /\ PostCreated \/ AttemptsExhausted \/ UploadAborted \/ PostAborted
        /\ ~(PostCreated /\ AttemptsExhausted)
        /\ ~(PostCreated /\ (UploadAborted \/ PostAborted))
        /\ ~(AttemptsExhausted /\ (UploadAborted \/ PostAborted))

\* A call that left the loop after a failed update_status, with an attempt
\* left and no post.
C17_Witness ==
    /\ TweetMediaReturned
    /\ PostAborted
    /\ Len(api_log) = 2
    /\ max_tweet_attempts = 2

\* C18: a call of media_upload or update_status that ended with status 429 is
\* the last call of its tweet_media call.
C18_NoCallAfter429 ==
    \A i \in 1..Len(api_log) :
        api_log[i].outcome = "429" =>
            /\ i = Len(api_log)
            /\ pcT \notin {"upload", "post"}

\* update_status ended with 429 in the first of two attempts, and tweet_media
\* has returned.
C18_Witness ==
    /\ TweetMediaReturned
    /\ max_tweet_attempts = 2
    /\ api_log = <<Call("media_upload", "ok"), Call("update_status", "429")>>

\* C15: the queue one smart_queue run builds holds every key of the pool it
\* listed exactly once and no other key (so no recent file that has left the
\* bucket); after the front group come the fresh keys not in the front group
\* and the pool keys that are recent.
C15_QueueIsPoolPermutation ==
    pcQ = "push" =>
        LET fresh == file_pool \ recent_queue
            n == Min(Cardinality(fresh), recent_limit)
            front == {new_queue[i] : i \in 1..n}
        IN  /\ Len(new_queue) = Cardinality(file_pool)
            /\ {new_queue[i] : i \in 1..Len(new_queue)} = file_pool
            /\ {new_queue[i] : i \in (n + 1)..Len(new_queue)}
                   = (fresh \ front) \cup (file_pool \cap recent_queue)

\* A queue was built while a recent file had left the bucket and another
\* recent file was still in the pool.
C15_Witness ==
    /\ pcQ = "push"
    /\ recent_limit >= 1
    /\ recent_queue \ file_pool # {}
    /\ recent_queue \cap file_pool # {}
    /\ file_pool \ recent_queue # {}

\* C16: after a run of smart_queue, with every download succeeding, the k-th
\* file tweet() takes off the queue is the k-th entry of new_queue, and a file
\* of a row left from an earlier run is taken only after all of new_queue.
C16_ConsumedInQueueOrder ==
    built.pushed =>
        \A k \in 1..Len(consumed) :
            IF k <= Len(built.queue)
            THEN consumed[k] = built.queue[k]
            ELSE consumed[k] \notin {built.queue[i] : i \in 1..Len(built.queue)}

\* Both entries of a new queue were taken in order, then the file of a row
\* left from an earlier run.
C16_Witness ==
    /\ built.pushed
    /\ Len(built.queue) = 2
    /\ Len(consumed) = 3

\* C13: no follow request goes out to a peer to whom a request was sent and
\* recorded before, also after the peer stopped following and followed again.
C13_NoSecondRequest ==
    ~(last_follow.outcome = "ok" /\ last_follow.prior = "cleared")

\* C14: the request table holds at most one row per peer.
C14_OneRecordPerPeer ==
    \A peer \in Peers : request_sent_table[peer] <= 1

\* While an unfollow run is under way, follow_back has recorded a follower
\* that its listing holds once more.
C14_Witness ==
    /\ pcU \notin {"idle", "followers"}
    /\ pcF = "check"
    /\ follower # None
    /\ fb_followers = <<follower>>
    /\ request_sent_table[follower] = 1

\* C19: in a follow_back run, a row is written for the follower exactly when
\* follow() returned or raised with status 403; after any other failure no
\* row is written and the run goes on; a listed follower is passed over only
\* if it has a row, so one whose attempt left none is attempted again.
C19_RecordOnSuccessOr403 ==
    /\ pcF = "update" =>
        follower = last_follow.peer /\ last_follow.outcome \in {"ok", "403"}
    /\ (pcF = "check" /\ follower # None /\ follower = last_follow.peer) =>
        (request_sent_table[follower] > 0 <=> last_follow.outcome \in {"ok", "403"})
    /\ (pcF = "check" /\ follower # None /\ follower # last_follow.peer) =>
        request_sent_table[follower] > 0
    /\ pcF = "idle" => fb_followers = <<>>

\* A peer whose earlier attempt left no record was attempted again; this time
\* the follow was refused with 403 and recorded, and the run goes on with
\* another follower.
C19_Witness ==
    /\ pcF = "check"
    /\ follower = last_follow.peer
    /\ last_follow.prior = "failed"
    /\ last_follow.outcome = "403"
    /\ request_sent_table[follower] = 1
    /\ fb_followers # <<>>

\* C20: one run of unfollow() looks up and unfollows only peers of its
\* friends listing that are not in its followers listing; the rows left are
\* those the run found minus those of the peers it unfollowed (a failed
\* lookup or unfollow deletes nothing); a run that ends below the cap has
\* visited every such peer; and a run unfollows at most UnfollowLimit (180)
\* peers, visiting none after that.
C20_UnfollowRun ==
    unfollow_run.started =>
        LET done == IF pcU = "delete_row" THEN unfollow_run.unfollowed \ {user}
                    ELSE unfollow_run.unfollowed
        IN  /\ unfollow_run.tried \subseteq unfollow_run.friends \ unfollow_run.followers
            /\ unfollow_run.unfollowed \subseteq unfollow_run.tried
            /\ Records = unfollow_run.records \ done
            /\ (pcU = "idle" /\ unfollow_run.looping
                    /\ Cardinality(unfollow_run.unfollowed) < UnfollowLimit) =>
                unfollow_run.tried = unfollow_run.friends \ unfollow_run.followers
            /\ Cardinality(unfollow_run.unfollowed) <= UnfollowLimit
            /\ Cardinality(unfollow_run.unfollowed) = UnfollowLimit =>
                pcU \in {"delete_row", "idle"}

\* A run went on after a failed lookup or unfollow, unfollowed 180 peers and
\* stopped with a peer left unvisited.
C20_Witness ==
    /\ pcU = "idle"
    /\ Cardinality(unfollow_run.unfollowed) = UnfollowLimit
    /\ Cardinality(unfollow_run.tried) > UnfollowLimit
    /\ unfollow_run.tried # unfollow_run.friends \ unfollow_run.followers
    /\ Records \cap unfollow_run.tried # {}

C21_LookupsWithinCap ==
    Cardinality(unfollow_run.tried) <= UnfollowLimit

\* C22: when tweet() is called only while can_tweet() holds, a call that
\* takes a file off the queue is made more than tweet_timeout after the
\* previous such call wrote its recent row, for every recent_limit.
C22_CyclesApart ==
    (pcT = "dequeue" /\ publish_times.published) =>
        publish_times.start - publish_times.last > tweet_timeout

\* C23: when smart_queue commits its rows while a call of tweet() is under
\* way, none of the first min(|fresh|, recent_limit) entries it commits is in
\* the recent table at that time, nor is the file tweet() has taken off the
\* queue and is publishing.
C23_FrontFreshAtCommit ==
    [][(pcQ = "push" /\ pcQ' = "idle") =>
        LET n == Min(Cardinality(file_pool \ recent_queue), recent_limit)
        IN  \A i \in 1..n :
                /\ new_queue[i] \notin get_table_contents(recent_queue_table)
                /\ ~(pcT \in {"upload", "post", "insert_recent"}
                        /\ new_queue[i] = filepath)]_vars

====
